---- MODULE Spec2Model ----
(***************************************************************************)
(* Ledger of pep_tipbot.py: the SQLite tables users and transfers, the     *)
(* command handlers that change them (cmd_start, cmd_deposit,              *)
(* cmd_withdraw, cmd_tip, cmd_faucet, mark_active) and the deposit scanner *)
(* (scanner_loop).                                                         *)
(*                                                                         *)
(* Amounts are integers counting units of 0.00000001 coin, the quantum of  *)
(* line 372, so that Decimal division followed by quantize(ROUND_DOWN) is  *)
(* integer floor division.  Times are seconds.                             *)
(*                                                                         *)
(* Scheduling.  The program is one asyncio event loop.  A coroutine gives  *)
(* up the loop only at an await; every db_* call and every rpc.call is     *)
(* synchronous (requests.post blocks the loop).  So the part of a handler  *)
(* between two awaits is one step.  Each db_* call commits on its own, and *)
(* a handler's step is the list of its committed writes applied in order.  *)
(***************************************************************************)
EXTENDS Integers, Sequences, FiniteSets, Bags, TLC

\* ---------------------------------------------------------------- bounds
\* Rows the transfers table may come to hold, per specification.
MaxTransfers == 2
MaxTipTransfers == 3
MaxScanTransfers == 3
MaxFaucetTransfers == 2
MaxCreditTransfers == 2
MaxStopTransfers == 2
MaxSplitTransfers == 3
MaxChatTransfers == 2
MaxReceived == 2
MaxStops == 1

\* ------------------------------------------------- configuration (env)
\* Lines 31-36 read these from the environment.  The amounts are taken in
\* quanta: a faucet of 50 quanta and a fee of 1 quantum (the defaults, 50
\* and 1.0 coin, are the same numbers in coins).
FAUCET_AMOUNT == 50
FAUCET_INTERVAL == 7200
WITHDRAW_FEE == 1
ACTIVE_WINDOW == 1800

\* Telegram accounts that talk to the bot, and their profile usernames
\* ("" when the profile has none: m.from_user.username or "").
Ids == {1, 2, 3}
Profile == (1 :> "Alice") @@ (2 :> "bob") @@ (3 :> "")

\* str.lower() on the names that occur.
Lower(s) ==
  CASE s = "Alice" -> "alice"
    [] s = "BOB" -> "bob"
    [] OTHER -> s

\* The clock starts late enough for a first faucet claim (last_faucet_ts is
\* 0 in a new row and time.time() is far beyond FAUCET_INTERVAL).
StartTime == FAUCET_INTERVAL
TickSteps == {FAUCET_INTERVAL}
EndTime == StartTime + FAUCET_INTERVAL

\* Amounts typed by users, and cumulative receipts the wallet reports.
Amounts == {0, 1, 3}
Readings == {0, 1, 3}

NULL == 0   \* SQL NULL in deposit_address, from_tg, to_tg, txid

VARIABLES
  users,       \* table users: tg_id -> row, for the rows that exist
  transfers,   \* table transfers: the bag of its rows (no statement reads the table)
  clock,       \* time.time()
  issued,      \* wallet: addresses handed out by getnewaddress per label
  sent,        \* wallet: the sends sendtoaddress performed
  scan,        \* scanner_loop: its position and the rows it fetched
  pending,     \* cmd_tip calls waiting in "await m.answer" before db_set_active
  cap,         \* the number of rows the transfers table may come to hold
  received,    \* wallet: confirmed cumulative receipts per account's address
  stops        \* the times the process was stopped in mid-handler and started again

vars == <<users, transfers, clock, issued, sent, scan, pending, cap, received, stops>>

\* ---------------------------------------------------------------- storage
DB == [users |-> users, transfers |-> transfers]

\* db_get_user returns None for a missing row: HasUser is "if u", and
\* db_get_user is read only where the row exists.
HasUser(d, id) == id \in DOMAIN d.users

db_get_user(d, id) == d.users[id]

NewRow(id, uname, t) ==
  [tg_id |-> id, username |-> uname, deposit_address |-> NULL,
   credited_total |-> 0, balance |-> 0, last_faucet_ts |-> 0,
   last_active_ts |-> t]

SetField(d, id, row) == [d EXCEPT !.users = (id :> row) @@ d.users]

db_upsert_user(d, id, uname, t) ==
  IF HasUser(d, id)
    THEN SetField(d, id, [d.users[id] EXCEPT !.username = uname, !.last_active_ts = t])
    ELSE SetField(d, id, NewRow(id, uname, t))

\* An UPDATE ... WHERE tg_id=? on a missing row changes nothing.
db_update_balance(d, id, new_balance) ==
  IF HasUser(d, id) THEN SetField(d, id, [d.users[id] EXCEPT !.balance = new_balance]) ELSE d

db_add_transfer(d, kind, from_tg, to_tg, amount, txid, t) ==
  [d EXCEPT !.transfers = @ (+) SetToBag({
     [kind |-> kind, from_tg |-> from_tg, to_tg |-> to_tg,
      amount |-> amount, txid |-> txid, ts |-> t]})]

db_set_deposit_address(d, id, addr) ==
  IF HasUser(d, id) THEN SetField(d, id, [d.users[id] EXCEPT !.deposit_address = addr]) ELSE d

db_set_credited_total(d, id, total) ==
  IF HasUser(d, id) THEN SetField(d, id, [d.users[id] EXCEPT !.credited_total = total]) ELSE d

db_set_last_faucet(d, id, ts) ==
  IF HasUser(d, id) THEN SetField(d, id, [d.users[id] EXCEPT !.last_faucet_ts = ts]) ELSE d

db_set_active(d, id, t) ==
  IF HasUser(d, id) THEN SetField(d, id, [d.users[id] EXCEPT !.last_active_ts = t]) ELSE d

\* SELECT tg_id FROM users WHERE last_active_ts >= now - ACTIVE_WINDOW
ActiveIds(d, t) == {id \in DOMAIN d.users : d.users[id].last_active_ts >= t - ACTIVE_WINDOW}

\* ------------------------------------------------- committed writes
\* What a handler does, in program order: one record per db_* call (each
\* ends in conn.commit(), so each is durable on its own) and one per call
\* of the wallet.
W_upsert(id, uname, t) == [w |-> "upsert", id |-> id, val |-> t, name |-> uname, rec |-> NULL]
W_balance(id, v) == [w |-> "balance", id |-> id, val |-> v, name |-> "", rec |-> NULL]
W_address(id, a) == [w |-> "address", id |-> id, val |-> a, name |-> "", rec |-> NULL]
W_credited(id, v) == [w |-> "credited", id |-> id, val |-> v, name |-> "", rec |-> NULL]
W_faucet(id, t) == [w |-> "faucet", id |-> id, val |-> t, name |-> "", rec |-> NULL]
W_active(id, t) == [w |-> "active", id |-> id, val |-> t, name |-> "", rec |-> NULL]
\* A call of the wallet (rpc.call) in the same list: it commits nothing.
\* val: the argument that matters, rec: TRUE when the call answered, FALSE
\* when it raised.
W_rpc(method, arg, ok) == [w |-> "rpc", id |-> NULL, val |-> arg, name |-> method, rec |-> ok]
W_transfer(kind, from_tg, to_tg, amount, txid, t) ==
  [w |-> "transfer", id |-> NULL, val |-> t, name |-> "",
   rec |-> [kind |-> kind, from_tg |-> from_tg, to_tg |-> to_tg, amount |-> amount, txid |-> txid]]

Commit(d, x) ==
  CASE x.w = "upsert" -> db_upsert_user(d, x.id, x.name, x.val)
    [] x.w = "balance" -> db_update_balance(d, x.id, x.val)
    [] x.w = "address" -> db_set_deposit_address(d, x.id, x.val)
    [] x.w = "credited" -> db_set_credited_total(d, x.id, x.val)
    [] x.w = "faucet" -> db_set_last_faucet(d, x.id, x.val)
    [] x.w = "active" -> db_set_active(d, x.id, x.val)
    [] x.w = "rpc" -> d
    [] x.w = "transfer" ->
         db_add_transfer(d, x.rec.kind, x.rec.from_tg, x.rec.to_tg, x.rec.amount, x.rec.txid, x.val)

RECURSIVE CommitAll(_, _)
CommitAll(d, ws) == IF ws = <<>> THEN d ELSE CommitAll(Commit(d, Head(ws)), Tail(ws))

\* ------------------------------------------------- messages and arguments
ChatTypes == {"private", "group"}
GroupChats == {"group"}
Messages == [from : Ids, chat : ChatTypes]
Private(id) == [from |-> id, chat |-> "private"]
Group(id) == [from |-> id, chat |-> "group"]

\* A whitespace-separated part of command.args: a decimal literal, or another
\* word (at: it starts with "@", s: the rest of it).
Num(n) == [t |-> "num", n |-> n, at |-> FALSE, s |-> ""]
Word(s) == [t |-> "word", n |-> 0, at |-> FALSE, s |-> s]
At(s) == [t |-> "word", n |-> 0, at |-> TRUE, s |-> s]

\* What a handler does before its first await: the calls it makes, in
\* order, the text it answers, and whether code is left to run after the
\* answer is sent.
Out(ws, reply) == [writes |-> ws, reply |-> reply, tail |-> FALSE]

\* ------------------------------------------------- wallet
Addr(id, k) == 10 * id + k

\* Lines 166-173 without the test of lines 167-169.
get_or_create_always(d, id, ok) ==
  IF ~ok
    THEN [raised |-> TRUE, writes |-> <<W_rpc("getnewaddress", id, FALSE)>>]
    ELSE [raised |-> FALSE,
          writes |-> <<W_rpc("getnewaddress", id, TRUE),
                       W_address(id, Addr(id, issued[id] + 1))>>]

\* get_or_create_deposit_address after db_upsert_user(id): d is the table
\* after the upsert; ok: getnewaddress answered.  raised: the exception of
\* rpc.call leaves the handler.
get_or_create_deposit_address(d, id, ok) ==
  IF HasUser(d, id) /\ db_get_user(d, id).deposit_address # NULL
    THEN [raised |-> FALSE, writes |-> <<>>]
    ELSE IF ~ok
      THEN [raised |-> TRUE, writes |-> <<W_rpc("getnewaddress", id, FALSE)>>]
      ELSE [raised |-> FALSE,
            writes |-> <<W_rpc("getnewaddress", id, TRUE),
                         W_address(id, Addr(id, issued[id] + 1))>>]

\* float(send_amount), written into the JSON request: a double and its
\* shortest decimal form keep a decimal of at most DBL_DIG significant
\* digits as it is, and round a longer one to about that many.
DBL_DIG == 15

RECURSIVE Digits(_)
Digits(x) == IF x < 10 THEN 1 ELSE 1 + Digits(x \div 10)

RECURSIVE DropDigits(_, _)
DropDigits(x, k) == IF k = 0 THEN x ELSE 10 * DropDigits(x \div 10, k - 1)

float(x) == IF Digits(x) <= DBL_DIG THEN x ELSE DropDigits(x, Digits(x) - DBL_DIG)

\* ------------------------------------------------- handlers
\* cmd_start and cmd_deposit differ only in the text they answer.
cmd_start(d, m, ok, t) ==
  IF m.chat # "private" THEN Out(<<>>, "")
  ELSE LET up == W_upsert(m.from, Profile[m.from], t)
           g == get_or_create_deposit_address(Commit(d, up), m.from, ok)
       IN Out(<<up>> \o g.writes, IF g.raised THEN "" ELSE "Your deposit address")

cmd_deposit(d, m, ok, t) == cmd_start(d, m, ok, t)

cmd_balance(d, m, t) ==
  IF m.chat # "private" THEN Out(<<>>, "")
  ELSE Out(<<W_upsert(m.from, Profile[m.from], t)>>, "Your balance is")

\* Line 278 without its test.
withdraw_unchecked(balance, total_cost) == FALSE

\* Line 278.
withdraw_insufficient(balance, total_cost) == balance < total_cost

\* Line 280 without the fee.
withdraw_send_gross(amount) == amount

\* Lines 280-281.
withdraw_send_amount(amount) == amount - WITHDRAW_FEE

\* Line 281 with < for <=.
withdraw_fee_below(send_amount) == send_amount < 0

\* Line 281.
withdraw_fee_exceeds(send_amount) == send_amount <= 0

\* Lines 283-289 with the debit moved before the send.
withdraw_debit_first(id, balance, amount, address, ok, txid, t) ==
  <<W_balance(id, balance - amount),
    W_rpc("sendtoaddress", float(withdraw_send_amount(amount)), ok)>>
  \o IF ok THEN <<W_transfer("withdraw", id, NULL, amount, txid, t)>> ELSE <<>>

\* Lines 283-289: the send, and after it the debit and the transfer row,
\* unless the send raised.
withdraw_send(id, balance, amount, address, ok, txid, t) ==
  <<W_rpc("sendtoaddress", float(withdraw_send_amount(amount)), ok)>>
  \o IF ok
       THEN <<W_balance(id, balance - amount),
              W_transfer("withdraw", id, NULL, amount, txid, t)>>
       ELSE <<>>

\* ok: sendtoaddress answers, with a transaction id.
cmd_withdraw(d, m, args, ok, t) ==
  IF m.chat # "private" THEN Out(<<>>, "")
  ELSE LET up == W_upsert(m.from, Profile[m.from], t)
           d1 == Commit(d, up)
       IN IF Len(args) # 2 THEN Out(<<up>>, "Usage: /withdraw amount address")
          ELSE IF args[1].t # "num" \/ args[1].n <= 0 THEN Out(<<up>>, "Invalid amount")
          ELSE LET amount == args[1].n
                   address == args[2].s
                   u == db_get_user(d1, m.from)
                   total_cost == amount
                   txid == Len(sent) + 1
               IN IF withdraw_insufficient(u.balance, total_cost)
                    THEN Out(<<up>>, "Insufficient balance")
                  ELSE IF withdraw_fee_exceeds(withdraw_send_amount(amount))
                    THEN Out(<<up>>, "Amount must be > fee")
                  ELSE Out(<<up>> \o withdraw_send(m.from, u.balance, total_cost, address, ok, txid, t),
                           IF ok THEN "Withdrawal submitted" ELSE "RPC error")

mark_active(d, m, t) ==
  Out(<<W_upsert(m.from, Profile[m.from], t), W_active(m.from, t)>>, "")

\* Line 423 with <= for <.
faucet_cooling_at_boundary(t, last_faucet_ts) == t - last_faucet_ts <= FAUCET_INTERVAL

\* Line 423.
faucet_cooling(t, last_faucet_ts) == t - last_faucet_ts < FAUCET_INTERVAL

cmd_faucet(d, m, t) ==
  LET up == W_upsert(m.from, Profile[m.from], t)
      u == db_get_user(Commit(d, up), m.from)
      new_bal == u.balance + FAUCET_AMOUNT
  IN IF faucet_cooling(t, u.last_faucet_ts)
       THEN Out(<<up>>, "Faucet available in")
       ELSE Out(<<up, W_balance(m.from, new_bal), W_faucet(m.from, t),
                  W_transfer("faucet", NULL, m.from, FAUCET_AMOUNT, NULL, t)>>,
                "You received")

\* parse_tip_args on the parts of command.args; mode "none" is None.
parse_tip_args(parts) ==
  LET none == [mode |-> "none", amount |-> 0, username |-> ""]
  IN IF Len(parts) = 1
       THEN IF parts[1].t = "num"
              THEN [mode |-> "lucky", amount |-> parts[1].n, username |-> ""]
              ELSE none
     ELSE IF Len(parts) = 2
       THEN IF parts[2].t # "num" THEN none
            ELSE IF parts[1].t = "word" /\ ~parts[1].at /\ Lower(parts[1].s) = "active"
              THEN [mode |-> "active", amount |-> parts[2].n, username |-> ""]
            ELSE IF parts[1].t = "word" /\ parts[1].at
              THEN [mode |-> "direct", amount |-> parts[2].n, username |-> parts[1].s]
            ELSE none
     ELSE none

\* The ids of a set in ascending order: SELECT on users answers in rowid
\* order, and rowid is tg_id (INTEGER PRIMARY KEY).
RECURSIVE InIdOrder(_)
InIdOrder(S) ==
  IF S = {} THEN <<>>
  ELSE LET lo == CHOOSE x \in S : \A y \in S : x <= y IN <<lo>> \o InIdOrder(S \ {lo})

\* Line 372 rounding up.
share_round_up(amount, n) == (amount + n - 1) \div n

\* (amount / n).quantize(Decimal("0.00000001"), rounding=ROUND_DOWN)
Share(amount, n) == amount \div n

\* Lines 340 and 374.
tip_insufficient(balance, needed) == balance < needed

\* The recipient loop of a split tip (lines 377-380) on table d.
RECURSIVE SplitWrites(_, _, _, _, _)
SplitWrites(d, from, recipients, share, t) ==
  IF recipients = <<>> THEN <<>>
  ELSE LET uid == Head(recipients)
           u == db_get_user(d, uid)
           ws == <<W_balance(uid, u.balance + share),
                   W_transfer("tip", from, uid, share, NULL, t)>>
       IN ws \o SplitWrites(CommitAll(d, ws), from, Tail(recipients), share, t)

\* Lines 383-387 with the recipient's row read before the sender's debit.
tip_one_stale(d, from, uid, balance, amount, t) ==
  <<W_balance(from, balance - amount),
    W_balance(uid, db_get_user(d, uid).balance + amount),
    W_transfer("tip", from, uid, amount, NULL, t)>>

\* Lines 383-387: the tip to one recipient, whose row is read once the
\* sender's debit is committed.
tip_one(d, from, uid, balance, amount, t) ==
  LET debit == W_balance(from, balance - amount)
      u == db_get_user(Commit(d, debit), uid)
  IN <<debit, W_balance(uid, u.balance + amount),
       W_transfer("tip", from, uid, amount, NULL, t)>>

\* The part of cmd_tip up to "await m.answer"; pick is random.choice's pick.
\* tail: the handler goes on to db_set_active once the answer is sent.
cmd_tip(d, m, args, pick, t) ==
  IF m.chat \notin GroupChats THEN Out(<<>>, "Use /tip in a group chat.")
  ELSE IF args = <<>> THEN Out(<<>>, "Usage: /tip")
  ELSE LET a == parse_tip_args(args) IN
  IF a.mode = "none" THEN Out(<<>>, "Invalid arguments")
  ELSE IF ~HasUser(d, m.from) THEN Out(<<>>, "Please DM me and /start first.")
  ELSE LET sender == db_get_user(d, m.from)
           amount == a.amount
           named == {uid \in DOMAIN d.users :
                       d.users[uid].username # "" /\ Lower(d.users[uid].username) = Lower(a.username)}
           others == ActiveIds(d, t) \ {m.from}
       IN
  IF amount <= 0 THEN Out(<<>>, "Amount must be > 0")
  ELSE IF tip_insufficient(sender.balance, amount) THEN Out(<<>>, "Insufficient balance")
  ELSE IF a.mode = "direct" /\ named = {} THEN Out(<<>>, "Target user not found")
  ELSE IF a.mode = "active" /\ others = {} THEN Out(<<>>, "No active users found.")
  ELSE IF a.mode = "lucky" /\ others = {} THEN Out(<<>>, "No active users to tip.")
  ELSE IF a.mode = "active"
    THEN LET recipients == InIdOrder(others)
             share == Share(amount, Len(recipients))
             total == share * Len(recipients)
             debit == W_balance(m.from, sender.balance - total)
         IN IF tip_insufficient(sender.balance, total) THEN Out(<<>>, "Insufficient balance for split tip")
            ELSE [Out(<<debit>> \o SplitWrites(Commit(d, debit), m.from, recipients, share, t),
                      "Tipped active users")
                    EXCEPT !.tail = TRUE]
    ELSE LET uid == IF a.mode = "direct" THEN Head(InIdOrder(named)) ELSE pick
         IN [Out(tip_one(d, m.from, uid, sender.balance, amount, t), "Tipped")
               EXCEPT !.tail = TRUE]

\* One row of a scanner pass (lines 441-458); row is the tuple fetched at
\* the start of the pass, ok: getreceivedbyaddress answered, total_recv: its
\* answer.
\* Line 448 passing over a difference of one unit.
scan_row_coarse(row, ok, total_recv, t) ==
  IF ~ok THEN Out(<<>>, "skipped")
  ELSE IF total_recv > row.credited_total + 1
    THEN LET diff == total_recv - row.credited_total
             new_bal == row.balance + diff
         IN Out(<<W_balance(row.tg_id, new_bal), W_credited(row.tg_id, total_recv),
                  W_transfer("deposit", NULL, row.tg_id, diff, NULL, t)>>,
                "credited")
    ELSE Out(<<>>, "unchanged")

scan_row(row, ok, total_recv, t) ==
  IF ~ok THEN Out(<<>>, "skipped")
  ELSE IF total_recv > row.credited_total
    THEN LET diff == total_recv - row.credited_total
             new_bal == row.balance + diff
         IN Out(<<W_balance(row.tg_id, new_bal), W_credited(row.tg_id, total_recv),
                  W_transfer("deposit", NULL, row.tg_id, diff, NULL, t)>>,
                "credited")
    ELSE Out(<<>>, "unchanged")

\* SELECT tg_id, deposit_address, credited_total, balance FROM users
\* WHERE deposit_address IS NOT NULL
RECURSIVE RowsOf(_, _)
RowsOf(d, ids) ==
  IF ids = <<>> THEN <<>>
  ELSE LET u == db_get_user(d, Head(ids))
       IN <<[tg_id |-> u.tg_id, deposit_address |-> u.deposit_address,
             credited_total |-> u.credited_total, balance |-> u.balance]>>
          \o RowsOf(d, Tail(ids))

ScanRows(d) == RowsOf(d, InIdOrder({id \in DOMAIN d.users : d.users[id].deposit_address # NULL}))

\* ------------------------------------------------- inputs
Address == "DEST"
WithdrawArgs ==
  {<<>>, <<Word("x"), Word(Address)>>} \cup {<<Num(a), Word(Address)>> : a \in Amounts}
TipArgs ==
  {<<>>, <<Word("x")>>}
  \cup {<<Num(a)>> : a \in Amounts}
  \cup {<<Word("active"), Num(a)>> : a \in Amounts}
  \cup {<<At(n), Num(a)>> : n \in {"alice", "BOB", "carol"}, a \in Amounts}

\* What getreceivedbyaddress does on one call: it raises, or answers a total.
RpcAnswers == {[ok |-> FALSE, total |-> 0]} \cup {[ok |-> TRUE, total |-> r] : r \in Readings}

\* ------------------------------------------------- scanner
\* scanner_loop from one await to the next (lines 441-461): the rows left of
\* the pass are taken in order, each with the wallet's answer for it, up to
\* and including the first credit, after which the scanner awaits
\* bot.send_message (pc "notify"); with no credit the pass ends in
\* asyncio.sleep (pc "sleep").
\* Lines 441-458 with the "continue" of line 447 a "break": a query that
\* raises ends the pass.
RECURSIVE scan_rows_break(_, _, _)
scan_rows_break(rows, answers, t) ==
  IF rows = <<>> THEN [writes |-> <<>>, rows |-> <<>>, pc |-> "sleep"]
  ELSE LET o == scan_row(Head(rows), Head(answers).ok, Head(answers).total, t)
       IN IF o.reply = "credited"
            THEN [writes |-> o.writes, rows |-> Tail(rows), pc |-> "notify"]
            ELSE IF o.reply = "skipped"
              THEN [writes |-> <<>>, rows |-> <<>>, pc |-> "sleep"]
              ELSE scan_rows_break(Tail(rows), Tail(answers), t)

RECURSIVE scan_rows(_, _, _)
scan_rows(rows, answers, t) ==
  IF rows = <<>> THEN [writes |-> <<>>, rows |-> <<>>, pc |-> "sleep"]
  ELSE LET o == scan_row(Head(rows), Head(answers).ok, Head(answers).total, t)
       IN IF o.reply = "credited"
            THEN [writes |-> o.writes, rows |-> Tail(rows), pc |-> "notify"]
            ELSE scan_rows(Tail(rows), Tail(answers), t)

\* ------------------------------------------------- steps
\* Commit a step's writes; the transfers table is kept within cap rows.
Apply(ws) ==
  \E d \in {CommitAll(DB, ws)} :
     /\ BagCardinality(d.transfers) <= cap
     /\ users' = d.users
     /\ transfers' = d.transfers
     /\ cap' = cap

Empty ==
  /\ users = <<>>
  /\ transfers = EmptyBag
  /\ clock = StartTime
  /\ issued = [id \in Ids |-> 0]
  /\ sent = <<>>
  /\ scan = [pc |-> "sleep", rows |-> <<>>]
  /\ pending = {}
  /\ received = [id \in Ids |-> 0]
  /\ stops = 0

Init == Empty /\ cap = MaxTransfers
InitTip == Empty /\ cap = MaxTipTransfers
InitScan == Empty /\ cap = MaxScanTransfers
InitFaucet == Empty /\ cap = MaxFaucetTransfers

\* The calls of a method among a handler's calls.
Calls(ws, method) == SelectSeq(ws, LAMBDA x : x.w = "rpc" /\ x.name = method)

\* The wallet's side of getnewaddress: a fresh address of the label.
Issue(m, o) ==
  IF \E i \in DOMAIN o.writes : o.writes[i].w = "rpc" /\ o.writes[i].rec
    THEN issued' = [issued EXCEPT ![m.from] = @ + 1]
    ELSE UNCHANGED issued

\* The wallet's side of sendtoaddress: the sends that answered.
RECURSIVE Sends(_, _)
Sends(calls, address) ==
  IF calls = <<>> THEN <<>>
  ELSE (IF Head(calls).rec THEN <<[address |-> address, amount |-> Head(calls).val]>> ELSE <<>>)
       \o Sends(Tail(calls), address)

Start(m, ok) ==
  LET o == cmd_start(DB, m, ok, clock)
  IN /\ Apply(o.writes)
     /\ Issue(m, o)
     /\ UNCHANGED <<stops, received, clock, sent, scan, pending>>

Deposit(m, ok) ==
  LET o == cmd_deposit(DB, m, ok, clock)
  IN /\ Apply(o.writes)
     /\ Issue(m, o)
     /\ UNCHANGED <<stops, received, clock, sent, scan, pending>>

Balance(m) ==
  LET o == cmd_balance(DB, m, clock)
  IN /\ Apply(o.writes)
     /\ UNCHANGED <<stops, received, clock, issued, sent, scan, pending>>

Withdraw(m, args, ok) ==
  LET o == cmd_withdraw(DB, m, args, ok, clock)
  IN /\ Apply(o.writes)
     /\ sent' = sent \o Sends(Calls(o.writes, "sendtoaddress"), Address)
     /\ UNCHANGED <<stops, received, clock, issued, scan, pending>>

\* The filter of mark_active lets group messages through (line 294).
MarkActive(m) ==
  LET o == mark_active(DB, m, clock)
  IN /\ m.chat \in GroupChats
     /\ Apply(o.writes)
     /\ UNCHANGED <<stops, received, clock, issued, sent, scan, pending>>

\* random.choice draws from the candidates of the lucky mode; elsewhere
\* nothing is drawn and pick is the sender.
Picks(d, m, args, t) ==
  LET others == ActiveIds(d, t) \ {m.from}
  IN IF parse_tip_args(args).mode = "lucky" /\ others # {} THEN others ELSE {m.from}

Tip(m, args, pick) ==
  LET o == cmd_tip(DB, m, args, pick, clock)
  IN /\ Apply(o.writes)
     /\ pending' = IF o.tail THEN pending \cup {m.from} ELSE pending
     /\ UNCHANGED <<stops, received, clock, issued, sent, scan>>

\* The rest of cmd_tip once m.answer returned (answered) or raised.
TipTail(id, answered) ==
  /\ id \in pending
  /\ pending' = pending \ {id}
  /\ Apply(IF answered THEN <<W_active(id, clock)>> ELSE <<>>)
  /\ UNCHANGED <<stops, received, clock, issued, sent, scan>>

Faucet(m) ==
  LET o == cmd_faucet(DB, m, clock)
  IN /\ Apply(o.writes)
     /\ UNCHANGED <<stops, received, clock, issued, sent, scan, pending>>

\* scanner_loop wakes up, fetches the rows and runs to its next await.
ScanPass(answers) ==
  /\ scan.pc = "sleep"
  /\ \E rows \in {ScanRows(DB)} : \E r \in {scan_rows(rows, answers, clock)} :
       /\ Apply(r.writes)
       /\ scan' = [pc |-> r.pc, rows |-> r.rows]
  /\ UNCHANGED <<stops, received, clock, issued, sent, pending>>

\* bot.send_message returned or raised (lines 455-458): either way the pass
\* goes on with the rows it fetched.
ScanResume(delivered, answers) ==
  /\ scan.pc = "notify"
  /\ \E r \in {scan_rows(scan.rows, answers, clock)} :
       /\ Apply(r.writes)
       /\ scan' = [pc |-> r.pc, rows |-> r.rows]
  /\ UNCHANGED <<stops, received, clock, issued, sent, pending>>

\* time.time() moves on.
Tick(step) ==
  /\ clock + step <= EndTime
  /\ clock' = clock + step
  /\ UNCHANGED <<stops, received, users, transfers, issued, sent, scan, pending, cap>>

\* The instants around the end of a cooldown that began at StartTime, and
\* time.time() moving on to a later one of them.
FaucetTimes ==
  {StartTime + 1, StartTime + FAUCET_INTERVAL - 1, StartTime + FAUCET_INTERVAL,
   StartTime + FAUCET_INTERVAL + 1}

Wait(t) ==
  /\ t > clock
  /\ clock' = t
  /\ UNCHANGED <<stops, received, users, transfers, issued, sent, scan, pending, cap>>

AnswersFor(rows) == [1 .. Len(rows) -> RpcAnswers]

Next ==
  \/ \E m \in Messages, ok \in BOOLEAN : Start(m, ok)
  \/ \E m \in Messages, ok \in BOOLEAN : Deposit(m, ok)
  \/ \E m \in Messages : Balance(m)
  \/ \E m \in Messages, args \in WithdrawArgs, ok \in BOOLEAN : Withdraw(m, args, ok)
  \/ \E m \in Messages : MarkActive(m)
  \/ \E m \in Messages, args \in TipArgs :
       \E pick \in Picks(DB, m, args, clock) : Tip(m, args, pick)
  \/ \E id \in Ids, answered \in BOOLEAN : TipTail(id, answered)
  \/ \E m \in Messages : Faucet(m)
  \/ \E answers \in AnswersFor(ScanRows(DB)) : ScanPass(answers)
  \/ \E delivered \in BOOLEAN, answers \in AnswersFor(scan.rows) : ScanResume(delivered, answers)

Spec == Init /\ [][Next]_vars

\* Tipping alone: accounts appear and are funded, tip one another, and stop
\* being active as time passes.
NextTip ==
  \/ \E m \in Messages : MarkActive(m)
  \/ \E m \in Messages : Faucet(m)
  \/ \E m \in Messages, args \in TipArgs :
       \E pick \in Picks(DB, m, args, clock) : Tip(m, args, pick)
  \/ \E id \in Ids, answered \in BOOLEAN : TipTail(id, answered)
  \/ \E step \in TickSteps : Tick(step)

SpecTip == InitTip /\ [][NextTip]_vars

\* The scanner among handlers that run while it awaits.
NextScan ==
  \/ \E m \in Messages, ok \in BOOLEAN : Start(m, ok)
  \/ \E m \in Messages : Faucet(m)
  \/ \E answers \in AnswersFor(ScanRows(DB)) : ScanPass(answers)
  \/ \E delivered \in BOOLEAN, answers \in AnswersFor(scan.rows) : ScanResume(delivered, answers)

SpecScan == InitScan /\ [][NextScan]_vars

\* The faucet alone, with the clock moving around the end of a cooldown.
NextFaucet ==
  \/ \E m \in Messages : Faucet(m)
  \/ \E t \in FaucetTimes : Wait(t)

SpecFaucet == InitFaucet /\ [][NextFaucet]_vars

\* ------------------------------------------------- wallet and restarts
InitCredit == Empty /\ cap = MaxCreditTransfers

\* Coins confirm at an account's deposit address: getreceivedbyaddress
\* (line 178) answers the cumulative amount from then on.
ReceiveAmounts == {1, 2}
CreditIds == {1, 2}
Receive(id, amount) ==
  /\ id \in DOMAIN users
  /\ users[id].deposit_address # NULL
  /\ received[id] + amount <= MaxReceived
  /\ received' = [received EXCEPT ![id] = @ + amount]
  /\ UNCHANGED <<stops, users, transfers, clock, issued, sent, scan, pending, cap>>

\* The wallet's answers to a pass over rows: each call raises or answers
\* what the address has received.
WalletAnswers(rows) ==
  {[i \in 1 .. Len(rows) |-> [ok |-> oks[i], total |-> received[rows[i].tg_id]]] :
     oks \in [1 .. Len(rows) -> BOOLEAN]}

\* The rows scanner_loop goes on with: those it holds while it awaits
\* bot.send_message, those of a new SELECT after asyncio.sleep.
RowsLeft == IF scan.pc = "notify" THEN scan.rows ELSE ScanRows(DB)

\* The process stops inside scanner_loop after k of the statements of a
\* credit (lines 451-453), each of which commits on its own (lines 105, 121,
\* 111), and is started again: main (lines 464-466) begins with an empty
\* scanner and no handler in flight.
StopScan(answers, k) ==
  LET r == scan_rows(RowsLeft, answers, clock)
  IN /\ k \in 1 .. Len(r.writes) - 1
     /\ Apply(SubSeq(r.writes, 1, k))
     /\ stops < MaxStops
     /\ stops' = stops + 1
     /\ scan' = [pc |-> "sleep", rows |-> <<>>]
     /\ pending' = {}
     /\ UNCHANGED <<received, clock, issued, sent>>

\* The scanner against a wallet that receives coins, in a process that can
\* stop in the middle of a credit.
NextCredit ==
  \/ \E id \in CreditIds, ok \in BOOLEAN : Start(Private(id), ok)
  \/ \E id \in CreditIds, amount \in ReceiveAmounts : Receive(id, amount)
  \/ \E answers \in WalletAnswers(ScanRows(DB)) : ScanPass(answers)
  \/ \E delivered \in BOOLEAN, answers \in WalletAnswers(scan.rows) : ScanResume(delivered, answers)
  \/ \E answers \in WalletAnswers(RowsLeft), k \in 1 .. 2 : StopScan(answers, k)

SpecCredit == InitCredit /\ [][NextCredit]_vars

\* The scanner against the wallet in a process that keeps running.  The
\* transfers table has room for a deposit row per unit received.
InitLive == Empty /\ cap = Cardinality(CreditIds) * MaxReceived

NextLive ==
  \/ \E id \in CreditIds, ok \in BOOLEAN : Start(Private(id), ok)
  \/ \E id \in CreditIds, amount \in ReceiveAmounts : Receive(id, amount)
  \/ \E answers \in WalletAnswers(ScanRows(DB)) : ScanPass(answers)
  \/ \E delivered \in BOOLEAN, answers \in WalletAnswers(scan.rows) : ScanResume(delivered, answers)

\* A step of scanner_loop: asyncio.sleep (lines 436, 461) and
\* bot.send_message (line 456) return to it, and "while True" (line 438)
\* has no way out.
ScanStep ==
  \/ \E answers \in WalletAnswers(ScanRows(DB)) : ScanPass(answers)
  \/ \E delivered \in BOOLEAN, answers \in WalletAnswers(scan.rows) : ScanResume(delivered, answers)

\* A step of scanner_loop in which the wallet answers every query.
OkAnswers(rows) ==
  [i \in 1 .. Len(rows) |-> [ok |-> TRUE, total |-> received[rows[i].tg_id]]]
AnsweredStep ==
  \/ ScanPass(OkAnswers(ScanRows(DB)))
  \/ \E delivered \in BOOLEAN : ScanResume(delivered, OkAnswers(scan.rows))

\* The event loop runs the scanner whenever it can go on, and the wallet
\* does not fail forever.
SpecLive == InitLive /\ [][NextLive]_vars /\ WF_vars(ScanStep) /\ SF_vars(AnsweredStep)

InitStop == Empty /\ cap = MaxStopTransfers

\* The process stops inside a handler after k of its calls, each db_* call
\* having committed on its own (lines 99, 105, 111, 126, 131), and is
\* started again with no handler in flight.  A send that answered before
\* the stop stays sent.
Stop(o, k) ==
  LET done == SubSeq(o.writes, 1, k)
  IN /\ k \in 1 .. Len(o.writes) - 1
     /\ Apply(done)
     /\ stops < MaxStops
     /\ stops' = stops + 1
     /\ sent' = sent \o Sends(Calls(done, "sendtoaddress"), Address)
     /\ scan' = [pc |-> "sleep", rows |-> <<>>]
     /\ pending' = {}
     /\ UNCHANGED <<received, clock, issued>>

StopFaucet(m, k) == Stop(cmd_faucet(DB, m, clock), k)
StopTip(m, args, pick, k) == Stop(cmd_tip(DB, m, args, pick, clock), k)
StopWithdraw(m, args, ok, k) == Stop(cmd_withdraw(DB, m, args, ok, clock), k)

\* The calls a handler of these makes at most, less one: the places a stop
\* can fall between two of them.
StopPoints == 1 .. 4

\* Faucet, tips and withdrawals in a process that can stop in the middle
\* of a handler.
NextStop ==
  \/ \E m \in Messages : MarkActive(m)
  \/ \E m \in Messages : Faucet(m)
  \/ \E m \in Messages, args \in TipArgs :
       \E pick \in Picks(DB, m, args, clock) : Tip(m, args, pick)
  \/ \E id \in Ids, answered \in BOOLEAN : TipTail(id, answered)
  \/ \E m \in Messages, args \in WithdrawArgs, ok \in BOOLEAN : Withdraw(m, args, ok)
  \/ \E m \in Messages, k \in StopPoints : StopFaucet(m, k)
  \/ \E m \in Messages, args \in TipArgs, k \in StopPoints :
       \E pick \in Picks(DB, m, args, clock) : StopTip(m, args, pick, k)
  \/ \E m \in Messages, args \in WithdrawArgs, ok \in BOOLEAN, k \in StopPoints :
       StopWithdraw(m, args, ok, k)

SpecStop == InitStop /\ [][NextStop]_vars

InitSplit == Empty /\ cap = MaxSplitTransfers

\* "/tip active <amount>"
SplitArgs == {<<Word("active"), Num(a)>> : a \in Amounts}

\* Split tips alone, among accounts the faucet funds, in a process that
\* can stop inside the loop over the recipients.
NextSplit ==
  \/ \E m \in Messages : MarkActive(m)
  \/ \E m \in Messages : Faucet(m)
  \/ \E m \in Messages, args \in SplitArgs : Tip(m, args, m.from)
  \/ \E id \in Ids, answered \in BOOLEAN : TipTail(id, answered)
  \/ \E m \in Messages, args \in SplitArgs, k \in StopPoints : StopTip(m, args, m.from, k)

SpecSplit == InitSplit /\ [][NextSplit]_vars

\* ------------------------------------------------- dispatch
cmd_help(d, m, t) ==
  IF m.chat # "private" THEN Out(<<>>, "") ELSE Out(<<>>, "Available commands")

cmd_active(d, m, t) ==
  IF m.chat \notin GroupChats THEN Out(<<>>, "")
  ELSE IF \A id \in ActiveIds(d, t) : d.users[id].username = ""
    THEN Out(<<>>, "No active users in the last 30 minutes.")
    ELSE Out(<<>>, "Active users")

\* FAUCET_LABEL, the label of no account.
FaucetLabel == 0

\* faucet_address (lines 181-183) and faucet_balance_confirmed (186-190),
\* which asks for an address of its own.
cmd_faucetinfo(d, m, ok, t) ==
  IF m.chat \notin GroupChats THEN Out(<<>>, "")
  ELSE IF ~ok THEN Out(<<W_rpc("getnewaddress", FaucetLabel, FALSE)>>, "RPC error")
  ELSE Out(<<W_rpc("getnewaddress", FaucetLabel, TRUE),
             W_rpc("getnewaddress", FaucetLabel, TRUE),
             W_rpc("getreceivedbyaddress", FaucetLabel, TRUE)>>,
           "Faucet deposit address")

\* The text after "/" of a message, and the handlers in the order their
\* @dp.message decorators run (lines 227-419), each with the command its
\* Command filter names; mark_active's filter is on the chat alone.
Commands ==
  {"start", "help", "deposit", "balance", "withdraw", "tip", "active",
   "faucetinfo", "faucet"}

Registered ==
  <<[name |-> "cmd_start", command |-> "start"],
    [name |-> "cmd_help", command |-> "help"],
    [name |-> "cmd_deposit", command |-> "deposit"],
    [name |-> "cmd_balance", command |-> "balance"],
    [name |-> "cmd_withdraw", command |-> "withdraw"],
    [name |-> "mark_active", command |-> ""],
    [name |-> "cmd_tip", command |-> "tip"],
    [name |-> "cmd_active", command |-> "active"],
    [name |-> "cmd_faucetinfo", command |-> "faucetinfo"],
    [name |-> "cmd_faucet", command |-> "faucet"]>>

Matches(h, m, command) ==
  IF h.name = "mark_active" THEN m.chat \in GroupChats ELSE command = h.command

\* The handler a message goes to: the first registered one whose filter
\* lets it through.
Route(m, command) ==
  LET hits == SelectSeq(Registered, LAMBDA h : Matches(h, m, command))
  IN IF hits = <<>> THEN "none" ELSE Head(hits).name

Handler(name, d, m, args, pick, ok, t) ==
  CASE name = "cmd_start" -> cmd_start(d, m, ok, t)
    [] name = "cmd_help" -> cmd_help(d, m, t)
    [] name = "cmd_deposit" -> cmd_deposit(d, m, ok, t)
    [] name = "cmd_balance" -> cmd_balance(d, m, t)
    [] name = "cmd_withdraw" -> cmd_withdraw(d, m, args, ok, t)
    [] name = "mark_active" -> mark_active(d, m, t)
    [] name = "cmd_tip" -> cmd_tip(d, m, args, pick, t)
    [] name = "cmd_active" -> cmd_active(d, m, t)
    [] name = "cmd_faucetinfo" -> cmd_faucetinfo(d, m, ok, t)
    [] name = "cmd_faucet" -> cmd_faucet(d, m, t)
    [] OTHER -> Out(<<>>, "")

\* What the bot does with a message "/command args".
OnMessage(d, m, command, args, pick, ok, t) ==
  Handler(Route(m, command), d, m, args, pick, ok, t)

ArgsOf(command) ==
  CASE command = "tip" -> TipArgs
    [] command = "withdraw" -> WithdrawArgs
    [] OTHER -> {<<>>}

InitChat == Empty /\ cap = MaxChatTransfers

\* A message arrives and the handler it goes to runs to its first await.
\* The wallet counts the addresses it hands out for accounts' labels.
Message(m, command, args, pick, ok) ==
  LET o == OnMessage(DB, m, command, args, pick, ok, clock)
  IN /\ Apply(o.writes)
     /\ IF Calls(o.writes, "getnewaddress") # <<>> /\ Route(m, command) # "cmd_faucetinfo"
          THEN Issue(m, o)
          ELSE UNCHANGED issued
     /\ sent' = sent \o Sends(Calls(o.writes, "sendtoaddress"), Address)
     /\ pending' = IF o.tail THEN pending \cup {m.from} ELSE pending
     /\ UNCHANGED <<stops, received, clock, scan>>

\* The bot as the dispatcher drives it.
NextChat ==
  \E m \in Messages, command \in Commands, ok \in BOOLEAN :
    \E args \in ArgsOf(command) :
      \E pick \in Picks(DB, m, args, clock) : Message(m, command, args, pick, ok)

SpecChat == InitChat /\ [][NextChat]_vars

\* ------------------------------------------------- reading the tables
\* The tables after a handler's calls are committed.
After(d, o) == CommitAll(d, o.writes)

\* balance of an account; an id without a row holds nothing.
Bal(d, id) == IF HasUser(d, id) THEN db_get_user(d, id).balance ELSE 0

RECURSIVE SumOver(_, _)
SumOver(S, f) ==
  IF S = {} THEN 0
  ELSE LET x == CHOOSE y \in S : TRUE IN f[x] + SumOver(S \ {x}, f)

SumBal(d) == SumOver(DOMAIN d.users, [id \in DOMAIN d.users |-> Bal(d, id)])

\* Rows of the transfers table of a kind, and the sum of their amounts.
RowsOfKind(bag, kind) == {r \in BagToSet(bag) : r.kind = kind}
CountKind(bag, kind) ==
  SumOver(RowsOfKind(bag, kind), [r \in RowsOfKind(bag, kind) |-> CopiesIn(r, bag)])
SumKind(bag, kind) ==
  SumOver(RowsOfKind(bag, kind),
          [r \in RowsOfKind(bag, kind) |-> r.amount * CopiesIn(r, bag)])

\* The rows a handler's calls add to the transfers table.
Records(ws) ==
  CommitAll([users |-> <<>>, transfers |-> EmptyBag],
            SelectSeq(ws, LAMBDA x : x.w = "transfer")).transfers


\* ------------------------------------------------- C1
\* A request that may debit the account of its sender: a withdrawal of an
\* amount above 0 whose send answers, or a tip whose arguments parse to an
\* amount above 0.
DebitRequests ==
  {[op |-> "withdraw", args |-> <<Num(a), Word(Address)>>] : a \in Amounts \ {0}}
  \cup {[op |-> "tip", args |-> x] :
          x \in {y \in TipArgs \ {<<>>} : parse_tip_args(y).mode # "none" /\ parse_tip_args(y).amount > 0}}

Handle(d, id, r, pick) ==
  IF r.op = "withdraw"
    THEN cmd_withdraw(d, Private(id), r.args, TRUE, clock)
    ELSE cmd_tip(d, Group(id), r.args, pick, clock)

PicksOf(d, id, r) ==
  IF r.op = "withdraw" THEN {id} ELSE Picks(d, Group(id), r.args, clock)

Accepted(o) == o.reply \in {"Withdrawal submitted", "Tipped", "Tipped active users"}

\* What an accepted request takes out of the account of id: the amounts of
\* its transfer rows from id to somewhere else.
Taken(o, id) ==
  LET bag == Records(o.writes)
      out == {r \in BagToSet(bag) : r.from_tg = id /\ r.to_tg # id}
  IN SumOver(out, [r \in out |-> r.amount * CopiesIn(r, bag)])

\* C1: every account's balance is at least 0 in every reachable state; and
\* of two debit requests on one account handled one after the other (a
\* handler holds the event loop from its funds check to its debit, so a race
\* of two is one of the two orders), both are accepted only if what they
\* take together is at most the balance before the first.
C1_BalanceNonNegative ==
  /\ \A id \in DOMAIN users : users[id].balance >= 0
  /\ \A id \in DOMAIN users : \A r1 \in DebitRequests :
       \A p1 \in PicksOf(DB, id, r1) :
         \A o1 \in {Handle(DB, id, r1, p1)} :
           Accepted(o1) =>
              \A d1 \in {After(DB, o1)} : \A t1 \in {Taken(o1, id)} :
                /\ \A x \in DOMAIN d1.users : d1.users[x].balance >= 0
                /\ \A r2 \in DebitRequests : \A p2 \in PicksOf(d1, id, r2) :
                     \A o2 \in {Handle(d1, id, r2, p2)} :
                       Accepted(o2) => t1 + Taken(o2, id) <= Bal(DB, id)

\* An account that was credited and on which two requests, each taking
\* something within the balance, exceed it together: the second is refused
\* after the first.
C1_Witness ==
  \E id \in DOMAIN users : \E r1, r2 \in DebitRequests :
    \E p1 \in PicksOf(DB, id, r1), p2 \in PicksOf(DB, id, r2) :
      LET o1 == Handle(DB, id, r1, p1)
          o2 == Handle(DB, id, r2, p2)
      IN /\ \E r \in BagToSet(transfers) : r.to_tg = id
         /\ Accepted(o1) /\ Accepted(o2)
         /\ Taken(o1, id) > 0 /\ Taken(o2, id) > 0
         /\ Taken(o1, id) + Taken(o2, id) > Bal(DB, id)
         /\ \A q \in PicksOf(After(DB, o1), id, r2) :
              Handle(After(DB, o1), id, r2, q).reply = "Insufficient balance"

\* ------------------------------------------------- C2
\* A step of the scanner that credits account id: the only writer of
\* credited_total is line 452.
Credits(id) ==
  /\ id \in DOMAIN users
  /\ users'[id].credited_total # users[id].credited_total

\* diff of the credit of id in this step (line 448).
CreditDiff(id) == users'[id].credited_total - users[id].credited_total

\* C2: a credit of the scanner is serializable with the handlers: the
\* balance right after a credit is the balance right before it plus diff,
\* whatever the handlers committed on the account since the pass read it.
C2_CreditSerializable ==
  [][\A id \in Ids :
       Credits(id) => users'[id].balance = users[id].balance + CreditDiff(id)]_vars

\* ------------------------------------------------- C3
\* Fees charged: WITHDRAW_FEE on every withdrawal committed (line 280).
FeesCharged(bag) == WITHDRAW_FEE * CountKind(bag, "withdraw")

\* C3: conservation: the sum of all balances is the deposit amounts plus
\* the faucet amounts minus the withdraw amounts minus the fees charged,
\* in every reachable state; tips cancel out.
C3_Conservation ==
  SumBal(DB) = SumKind(transfers, "deposit") + SumKind(transfers, "faucet")
               - SumKind(transfers, "withdraw") - FeesCharged(transfers)

\* ------------------------------------------------- C4
\* The rows the scanner works from: those left of the pass it is in, or
\* those a pass starting now would fetch.
RowsAtHand == IF scan.pc = "notify" THEN scan.rows ELSE ScanRows(DB)

DepositsTo(bag, id) ==
  LET rows == {r \in RowsOfKind(bag, "deposit") : r.to_tg = id}
  IN SumOver(rows, [r \in rows |-> r.amount * CopiesIn(r, bag)])

DepositRow(id, diff, t) ==
  [kind |-> "deposit", from_tg |-> NULL, to_tg |-> id, amount |-> diff,
   txid |-> NULL, ts |-> t]

\* C4: crediting is idempotent on the watermark.  For every row the scanner
\* comes to and every reading of its address: a reading at most
\* credited_total changes nothing; a higher one adds exactly the difference
\* to the account's balance, sets credited_total to the reading and appends
\* one deposit row of the difference.  And in every step credited_total
\* does not decrease, changes only in a step of the scanner, and is the sum
\* of the account's deposit rows.
C4_WatermarkIdempotent ==
  [][/\ \A i \in DOMAIN RowsAtHand : \A r \in Readings :
          LET row == RowsAtHand[i]
              id == row.tg_id
              o == scan_row(row, TRUE, r, clock)
              d == After(DB, o)
          IN IF r <= users[id].credited_total
               THEN o.writes = <<>>
               ELSE /\ Bal(d, id) = Bal(DB, id) + (r - users[id].credited_total)
                    /\ d.users[id].credited_total = r
                    /\ Records(o.writes)
                         = SetToBag({DepositRow(id, r - users[id].credited_total, clock)})
     /\ \A id \in DOMAIN users :
          /\ users'[id].credited_total >= users[id].credited_total
          /\ Credits(id) => scan' # scan
          /\ users[id].credited_total = DepositsTo(transfers, id)]_vars

\* ------------------------------------------------- C5
\* Balances and transfers are the same in two tables.
SameLedger(d, e) ==
  /\ \A id \in Ids : Bal(d, id) = Bal(e, id)
  /\ d.transfers = e.transfers

IsSend(x) == x.w = "rpc" /\ x.name = "sendtoaddress"

\* C5: in every withdraw request, sendtoaddress is called at most once and
\* before any write of a balance or of a transfer row; and when the send
\* raises, balances and transfers are as before the request and the answer
\* reports the error.
C5_SendBeforeDebit ==
  \A m \in Messages, args \in WithdrawArgs, ok \in BOOLEAN :
    LET o == cmd_withdraw(DB, m, args, ok, clock)
        calls == Calls(o.writes, "sendtoaddress")
    IN /\ Len(calls) <= 1
       /\ \A j \in DOMAIN o.writes :
            o.writes[j].w \in {"balance", "transfer"}
              => \E i \in 1 .. j - 1 : IsSend(o.writes[i])
       /\ (calls # <<>> /\ ~calls[1].rec)
            => /\ SameLedger(After(DB, o), DB)
               /\ o.reply = "RPC error"

\* After a withdrawal that was sent, a further request of the same account
\* reaches the send, which raises.
C5_Witness ==
  \E r \in BagToSet(transfers) :
    /\ r.kind = "withdraw"
    /\ \E args \in WithdrawArgs :
         LET o == cmd_withdraw(DB, Private(r.from_tg), args, FALSE, clock)
         IN /\ Calls(o.writes, "sendtoaddress") # <<>>
            /\ o.reply = "RPC error"

\* ------------------------------------------------- C6
WithdrawRow(id, amount, txid, t) ==
  [kind |-> "withdraw", from_tg |-> id, to_tg |-> NULL, amount |-> amount,
   txid |-> txid, ts |-> t]

\* C6: a withdraw request of amount a > fee by an account holding at least
\* a, whose send answers, sends a - fee, lowers the account's balance by
\* exactly a, changes no other balance, and appends exactly one withdraw
\* row, of amount a and with the transaction id the send answered.
C6_WithdrawEffect ==
  \A id \in Ids, a \in Amounts :
    LET o == cmd_withdraw(DB, Private(id), <<Num(a), Word(Address)>>, TRUE, clock)
        d == After(DB, o)
        txid == Len(sent) + 1
    IN (a > WITHDRAW_FEE /\ Bal(DB, id) >= a)
         => /\ o.reply = "Withdrawal submitted"
            /\ Calls(o.writes, "sendtoaddress")
                 = <<W_rpc("sendtoaddress", a - WITHDRAW_FEE, TRUE)>>
            /\ Bal(d, id) = Bal(DB, id) - a
            /\ \A x \in Ids \ {id} : Bal(d, x) = Bal(DB, x)
            /\ txid # NULL
            /\ d.transfers = transfers (+) SetToBag({WithdrawRow(id, a, txid, clock)})

\* A withdrawal of 3 done by an account that held 50: 2 was sent, 47 is
\* left, and the one row holds 3 and the id of the send.
C6_Witness ==
  \E r \in BagToSet(transfers) :
    /\ r = WithdrawRow(r.from_tg, 3, Len(sent), clock)
    /\ CountKind(transfers, "withdraw") = 1
    /\ sent = <<[address |-> Address, amount |-> 3 - WITHDRAW_FEE]>>
    /\ users[r.from_tg].balance = FAUCET_AMOUNT - 3

\* ------------------------------------------------- C7
RefusedUnchanged(o) ==
  /\ Calls(o.writes, "sendtoaddress") = <<>>
  /\ SameLedger(After(DB, o), DB)

\* C7 as stated: a withdraw request of an amount at most the fee is refused
\* for the fee whatever the balance, one of an amount above the fee and
\* above the balance is refused for insufficient funds; neither sends nor
\* changes balances or transfers.
C7_Original ==
  \A id \in Ids, a \in Amounts \ {0}, ok \in BOOLEAN :
    LET o == cmd_withdraw(DB, Private(id), <<Num(a), Word(Address)>>, ok, clock)
    IN /\ a <= WITHDRAW_FEE
            => o.reply = "Amount must be > fee" /\ RefusedUnchanged(o)
       /\ (a > WITHDRAW_FEE /\ Bal(DB, id) < a)
            => o.reply = "Insufficient balance" /\ RefusedUnchanged(o)

\* C7: a withdraw request of an amount a > 0 above the balance is refused
\* for insufficient funds whatever the fee; one of an amount within the
\* balance and at most the fee is refused for the fee; neither sends nor
\* changes balances or transfers.
C7_WithdrawPreconditions ==
  \A id \in Ids, a \in Amounts \ {0}, ok \in BOOLEAN :
    LET o == cmd_withdraw(DB, Private(id), <<Num(a), Word(Address)>>, ok, clock)
    IN /\ Bal(DB, id) < a
            => o.reply = "Insufficient balance" /\ RefusedUnchanged(o)
       /\ (Bal(DB, id) >= a /\ a <= WITHDRAW_FEE)
            => o.reply = "Amount must be > fee" /\ RefusedUnchanged(o)

\* One account holds the fee or more and is refused for the fee, another
\* holds less than the fee it asks to withdraw and is refused for its funds.
C7_Witness ==
  \E id1, id2 \in DOMAIN users :
    LET args == <<Num(WITHDRAW_FEE), Word(Address)>>
    IN /\ users[id1].balance >= WITHDRAW_FEE
       /\ cmd_withdraw(DB, Private(id1), args, TRUE, clock).reply = "Amount must be > fee"
       /\ users[id2].balance < WITHDRAW_FEE
       /\ cmd_withdraw(DB, Private(id2), args, TRUE, clock).reply = "Insufficient balance"

\* ------------------------------------------------- C8
\* Tip requests that reach the funds check: arguments that parse, an amount
\* above 0.
FundedTipArgs ==
  {x \in TipArgs \ {<<>>} :
     parse_tip_args(x).mode # "none" /\ parse_tip_args(x).amount > 0}

Insufficient(o) ==
  o.reply \in {"Insufficient balance", "Insufficient balance for split tip"}

\* The accounts a split tip of id goes to.
SplitRecipients(id) == ActiveIds(DB, clock) \ {id}

\* What the tip takes: the full amount, or for a split among n >= 1
\* recipients the rounded total.
Required(id, a) ==
  LET n == Cardinality(SplitRecipients(id))
  IN IF a.mode = "active" /\ n >= 1 THEN Share(a.amount, n) * n ELSE a.amount

\* C8: a tip is refused for insufficient funds exactly when the
\* sender's balance is below what the tip takes, the rounded total in the
\* split mode.
C8_Original ==
  \A id \in DOMAIN users, args \in FundedTipArgs :
    \A pick \in Picks(DB, Group(id), args, clock) :
      Insufficient(cmd_tip(DB, Group(id), args, pick, clock))
        <=> Bal(DB, id) < Required(id, parse_tip_args(args))

\* ------------------------------------------------- C9
TipRow(from, to, amount, t) ==
  [kind |-> "tip", from_tg |-> from, to_tg |-> to, amount |-> amount,
   txid |-> NULL, ts |-> t]

\* C9: a split tip of amount a > 0 by a sender holding at least a, with
\* n >= 1 active accounts other than the sender, is done, and a split tip
\* that is done credits each of these n accounts the same share, the
\* largest with n * share <= a; debits the sender exactly n * share; leaves
\* every other balance alone; has not the sender among the recipients; and
\* appends one tip row of amount share per recipient.
C9_SplitRounding ==
  \A id \in DOMAIN users, a \in Amounts :
    LET o == cmd_tip(DB, Group(id), <<Word("active"), Num(a)>>, id, clock)
        d == After(DB, o)
        recipients == SplitRecipients(id)
        n == Cardinality(recipients)
    IN /\ (a > 0 /\ Bal(DB, id) >= a /\ n >= 1) => o.reply = "Tipped active users"
       /\ o.reply = "Tipped active users" =>
            /\ n >= 1
            /\ id \notin recipients
            /\ \E share \in 0 .. a :
                 /\ n * share <= a /\ a < n * (share + 1)
                 /\ \A x \in recipients : Bal(d, x) = Bal(DB, x) + share
                 /\ Bal(d, id) = Bal(DB, id) - n * share
                 /\ d.transfers
                      = transfers (+) SetToBag({TipRow(id, x, share, clock) : x \in recipients})
            /\ \A x \in Ids \ (recipients \cup {id}) : Bal(d, x) = Bal(DB, x)

\* A split of 3 between two recipients was done: each got 1 and a row of 1,
\* and the sender, who held 50, holds 48.
C9_Witness ==
  \E id \in DOMAIN users :
    /\ Cardinality(SplitRecipients(id)) = 2
    /\ users[id].balance = FAUCET_AMOUNT - 2
    /\ \A x \in SplitRecipients(id) :
         /\ users[x].balance = 1
         /\ CopiesIn(TipRow(id, x, 1, clock), transfers) = 1

\* ------------------------------------------------- C10
\* The accounts a direct tip to a name goes to, by the name as typed.
Named(name) ==
  {x \in DOMAIN users : users[x].username # "" /\ Lower(users[x].username) = Lower(name)}

\* C10: a direct or random tip that is done, of amount a from S to R, adds
\* exactly one tip row (S, R, a), lowers S by a and raises R by a when
\* R # S and leaves S as it was when R = S, leaves every other balance and
\* the sum of all balances as they were, with R the picked candidate
\* (random) or an account of the name (direct); and any tip request that
\* is not done writes no balance and no row.
C10_TipAllOrNothing ==
  \A m \in Messages, args \in TipArgs :
    \A pick \in Picks(DB, m, args, clock) :
      LET o == cmd_tip(DB, m, args, pick, clock)
          d == After(DB, o)
          S == m.from
      IN CASE o.reply = "Tipped" ->
                LET a == parse_tip_args(args)
                IN \E R \in DOMAIN users :
                     /\ a.mode = "lucky" => R = pick /\ R # S
                     /\ a.mode = "direct" => R \in Named(a.username)
                     /\ d.transfers = transfers (+) SetToBag({TipRow(S, R, a.amount, clock)})
                     /\ R # S => /\ Bal(d, S) = Bal(DB, S) - a.amount
                                 /\ Bal(d, R) = Bal(DB, R) + a.amount
                     /\ R = S => Bal(d, S) = Bal(DB, S)
                     /\ \A x \in Ids \ {S, R} : Bal(d, x) = Bal(DB, x)
                     /\ SumBal(d) = SumBal(DB)
           [] o.reply = "Tipped active users" -> TRUE
           [] OTHER -> o.writes = <<>> /\ SameLedger(d, DB)

\* A sender who held 50 tipped 3 to another account and 3 to its own name:
\* it holds 47, the other 3, there is a row of each tip, and a tip to a
\* name nobody has is answered as not found.
C10_Witness ==
  \E S, R \in DOMAIN users :
    /\ R # S
    /\ CopiesIn(TipRow(S, R, 3, clock), transfers) = 1
    /\ CopiesIn(TipRow(S, S, 3, clock), transfers) = 1
    /\ users[S].balance = FAUCET_AMOUNT - 3
    /\ users[R].balance = 3
    /\ cmd_tip(DB, Group(S), <<At("carol"), Num(3)>>, S, clock).reply
         = "Target user not found"

\* ------------------------------------------------- C11
FaucetRow(id, t) ==
  [kind |-> "faucet", from_tg |-> NULL, to_tg |-> id, amount |-> FAUCET_AMOUNT,
   txid |-> NULL, ts |-> t]

\* last_faucet_ts of an account; the column's default in a row not yet made.
LastFaucet(d, id) == IF HasUser(d, id) THEN db_get_user(d, id).last_faucet_ts ELSE 0

\* C11: a faucet request is paid exactly when now - last_faucet_ts is at
\* least the interval, the boundary included.  When paid, the account's
\* balance grows by exactly the faucet amount, last_faucet_ts becomes now,
\* one faucet row is appended and no other balance changes; when not,
\* balances, last_faucet_ts and transfers stay as they are.  And any two
\* faucet rows of one account are at least the interval apart.
C11_FaucetCooldown ==
  /\ \A m \in Messages :
       LET o == cmd_faucet(DB, m, clock)
           d == After(DB, o)
           id == m.from
       IN /\ o.reply = "You received" <=> clock - LastFaucet(DB, id) >= FAUCET_INTERVAL
          /\ o.reply = "You received" =>
               /\ Bal(d, id) = Bal(DB, id) + FAUCET_AMOUNT
               /\ LastFaucet(d, id) = clock
               /\ d.transfers = transfers (+) SetToBag({FaucetRow(id, clock)})
               /\ \A x \in Ids \ {id} : Bal(d, x) = Bal(DB, x)
          /\ o.reply # "You received" =>
               /\ o.reply = "Faucet available in"
               /\ SameLedger(d, DB)
               /\ \A x \in Ids : LastFaucet(d, x) = LastFaucet(DB, x)
  /\ \A r1, r2 \in RowsOfKind(transfers, "faucet") :
       /\ CopiesIn(r1, transfers) = 1
       /\ (r1.to_tg = r2.to_tg /\ r1 # r2)
            => (r1.ts - r2.ts >= FAUCET_INTERVAL \/ r2.ts - r1.ts >= FAUCET_INTERVAL)

\* An account was paid at StartTime and again exactly one interval later; it
\* holds twice the faucet amount, and a further request now is refused.
C11_Witness ==
  \E id \in DOMAIN users :
    /\ CopiesIn(FaucetRow(id, StartTime), transfers) = 1
    /\ CopiesIn(FaucetRow(id, StartTime + FAUCET_INTERVAL), transfers) = 1
    /\ users[id].balance = 2 * FAUCET_AMOUNT
    /\ cmd_faucet(DB, Private(id), clock).reply = "Faucet available in"

\* ------------------------------------------------- C12
\* deposit_address of an account; NULL in a row not yet made.
DepositAddress(us, id) == IF id \in DOMAIN us THEN us[id].deposit_address ELSE NULL

\* C12: an account's deposit address is assigned at most once: the wallet
\* has handed out at most one address per account, the account holds it,
\* and in every step an address that is set stays as it is and no further
\* address is requested for the account.
C12_AddressImmutable ==
  [][\A id \in Ids :
       /\ issued[id] <= 1
       /\ issued[id] = 1 <=> DepositAddress(users, id) # NULL
       /\ DepositAddress(users, id) # NULL
            => /\ DepositAddress(users', id) = DepositAddress(users, id)
               /\ issued'[id] = issued[id]]_vars

\* An account holds the one address the wallet issued for it and has since
\* been paid by the faucet; /start and /deposit now answer without a call of
\* the wallet.
C12_Witness ==
  \E id \in DOMAIN users :
    /\ users[id].deposit_address = Addr(id, 1)
    /\ issued[id] = 1
    /\ users[id].balance > 0
    /\ \A ok \in BOOLEAN :
         /\ Calls(cmd_start(DB, Private(id), ok, clock).writes, "getnewaddress") = <<>>
         /\ Calls(cmd_deposit(DB, Private(id), ok, clock).writes, "getnewaddress") = <<>>

\* ------------------------------------------------- C13
\* C13: whenever the process stops between two committed writes of a
\* credit and the scanner later runs again against the same wallet, the
\* amount credited to an account's balance from deposits is never more
\* than the highest cumulative receipt the wallet reported for its address.
\* Under SpecCredit the balance changes by deposit credits alone and the
\* wallet's cumulative receipts never fall, so the highest value reported
\* is at most received[id].
C13_ExactlyOnce ==
  \A id \in DOMAIN users : users[id].balance <= received[id]

\* ------------------------------------------------- C14
\* What the transfers table accounts for in an account's balance: the
\* amounts of the rows to it less the amounts of the rows from it.
RowsTo(bag, id) == {r \in BagToSet(bag) : r.to_tg = id}
RowsFrom(bag, id) == {r \in BagToSet(bag) : r.from_tg = id}
Ledger(bag, id) ==
  SumOver(RowsTo(bag, id), [r \in RowsTo(bag, id) |-> r.amount * CopiesIn(r, bag)])
  - SumOver(RowsFrom(bag, id), [r \in RowsFrom(bag, id) |-> r.amount * CopiesIn(r, bag)])

\* C14: in every durable state, stops inside a handler included, every
\* balance change is there together with its transfer row: each account's
\* balance is what the rows of the transfers table to it and from it
\* account for.
C14_BalanceWithRecord ==
  \A id \in DOMAIN users : users[id].balance = Ledger(transfers, id)

\* ------------------------------------------------- C15
\* C15: a split tip reaches the tables whole.  Under SpecSplit balances
\* change by the faucet, whose payments are all recorded, and by split
\* tips alone, so that a sender debited the rounded total with a recipient
\* left without the share shows as coins missing: in every durable state
\* the balances add up to what the faucet paid.
C15_SplitTipAtomic ==
  SumBal(DB) = SumKind(transfers, "faucet")

\* ------------------------------------------------- C16
\* C16: a withdraw request of amount a > fee by an account holding at
\* least a, whose send answers, appends one withdraw row whose amount is
\* the amount sent, a - fee, and whose txid is the transaction id the send
\* answered.
C16_WithdrawRecordNet ==
  \A id \in Ids, a \in Amounts :
    LET o == cmd_withdraw(DB, Private(id), <<Num(a), Word(Address)>>, TRUE, clock)
        txid == Len(sent) + 1
    IN (a > WITHDRAW_FEE /\ Bal(DB, id) >= a)
         => Records(o.writes) = SetToBag({WithdrawRow(id, a - WITHDRAW_FEE, txid, clock)})

\* ------------------------------------------------- C17
\* C17: every row of the transfers table, of whatever kind, has an amount
\* above 0; no tip that is done appends a row of amount 0.
C17_PositiveAmounts ==
  \A r \in BagToSet(transfers) : r.amount > 0

\* ------------------------------------------------- C18
\* The tables at the end of the pass that goes on with rows and gets the
\* answers one per row, whether its notifications are delivered or not:
\* scanner_loop taken from await to await until it is back in asyncio.sleep.
RECURSIVE PassEnd(_, _, _, _)
PassEnd(d, rows, answers, t) ==
  LET r == scan_rows(rows, answers, t)
      left == SubSeq(answers, Len(answers) - Len(r.rows) + 1, Len(answers))
  IN IF r.pc = "sleep" THEN CommitAll(d, r.writes)
     ELSE PassEnd(CommitAll(d, r.writes), r.rows, left, t)

\* C18: in a pass of the scanner, a query of the wallet that raises skips
\* its account alone: that account is left as it was, and every other
\* account of the pass whose reading is above its credited_total is
\* credited by the end of the same pass (credited_total at the reading, the
\* difference added to the balance the row was fetched with, one deposit
\* row of the difference more), whatever queries raise before or after it
\* and whether notifications are delivered or not.
C18_FaultIsolation ==
  \A answers \in AnswersFor(RowsLeft) :
    LET d == PassEnd(DB, RowsLeft, answers, clock)
    IN \A i \in DOMAIN RowsLeft :
         LET row == RowsLeft[i]
             id == row.tg_id
             diff == answers[i].total - row.credited_total
         IN IF answers[i].ok /\ diff > 0
              THEN /\ d.users[id].credited_total = answers[i].total
                   /\ d.users[id].balance = row.balance + diff
                   /\ CopiesIn(DepositRow(id, diff, clock), d.transfers)
                        = CopiesIn(DepositRow(id, diff, clock), transfers) + 1
              ELSE /\ d.users[id] = users[id]
                   /\ DepositsTo(d.transfers, id) = DepositsTo(transfers, id)

\* The scanner went past account 1, which has an address and nothing
\* credited, credited account 2, and awaits the notification with account
\* 3 still to come.
C18_Witness ==
  /\ scan.pc = "notify"
  /\ Len(scan.rows) = 1 /\ scan.rows[1].tg_id = 3
  /\ {1, 2} \subseteq DOMAIN users
  /\ users[1].deposit_address # NULL /\ users[1].credited_total = 0
  /\ users[2].credited_total > 0
  /\ CountKind(transfers, "deposit") = 1

\* ------------------------------------------------- C20
\* The commands the help text gives to group chats, and the replies of
\* their handlers when they do what was asked.
GroupCommands == {"tip", "active", "faucetinfo", "faucet"}
OwnHandler ==
  [c \in GroupCommands |->
     CASE c = "tip" -> "cmd_tip" [] c = "active" -> "cmd_active"
       [] c = "faucetinfo" -> "cmd_faucetinfo" [] c = "faucet" -> "cmd_faucet"]
DoneReplies ==
  {"Tipped", "Tipped active users", "Active users", "Faucet deposit address",
   "You received"}

\* C20: a /tip, /active, /faucetinfo or /faucet message in a group chat is
\* handled by its own command handler: whenever that handler would do what
\* the message asks (a valid /tip is performed, and its sender marked
\* active at the end), that is what the bot does with the message.
C20_GroupRouting ==
  \A id \in Ids, c \in GroupCommands, ok \in BOOLEAN :
    \A args \in ArgsOf(c) :
      \A pick \in Picks(DB, Group(id), args, clock) :
        LET own == Handler(OwnHandler[c], DB, Group(id), args, pick, ok, clock)
        IN own.reply \in DoneReplies
             => OnMessage(DB, Group(id), c, args, pick, ok, clock) = own

\* ------------------------------------------------- C19
\* The wallet has received more at an account's address than the account
\* was credited; the account has been credited all the wallet received.
Behind(id) ==
  /\ id \in DOMAIN users
  /\ users[id].deposit_address # NULL
  /\ received[id] > users[id].credited_total
CaughtUp(id) ==
  /\ id \in DOMAIN users
  /\ users[id].credited_total = received[id]
  /\ users[id].balance = received[id]

\* C19: the scanner keeps running passes, each of which ends; and with the
\* scanner scheduled fairly and the wallet's queries answering again and
\* again, an account whose address has received more than its
\* credited_total is in the end credited up to the receipts: credited_total
\* equals them and the balance, which deposits alone feed here, has grown
\* by the difference.
C19_DepositLiveness ==
  /\ []<>(scan.pc = "sleep")
  /\ \A id \in CreditIds : Behind(id) ~> CaughtUp(id)

\* An account was credited twice, as two receipts of 1 came in, and has
\* caught up with the wallet.
C19_Witness ==
  \E id \in DOMAIN users :
    /\ received[id] = 2
    /\ CaughtUp(id)
    /\ CopiesIn(DepositRow(id, 1, clock), transfers) = 2
====
